---- MODULE Spec2Model ----
(* Model of goonjapreet/smart-social-distancing:                            *)
(*   - the control channel of api/processor_api.py (command queue, result   *)
(*     queue, the request handlers and restart_processor);                   *)
(*   - the frame loop of libs/distancing.py (Distancing.process_video and    *)
(*     Distancing.stop_process_video).                                       *)
EXTENDS Integers, Sequences, FiniteSets, TLC

(***************************************************************************)
(* Bounds                                                                  *)
(***************************************************************************)
NumReq == 3        \* control-plane requests that arrive in one run
MaxCalls == 2      \* process_video calls in one run
MaxFrames == 2     \* decodable frames a video source holds
MaxDet == 3        \* detections handed to the post-processor for one frame
MaxObj == 2        \* tracked objects handed to calculate_box_distances
MaxIn == 2         \* detections the detector returns for one frame
MaxValid == 2      \* valid frames run through the stages of one iteration

Reqs == 1..NumReq
NoVal == "none"

(***************************************************************************)
(* State                                                                   *)
(***************************************************************************)
VARIABLES
  \* ---- api/processor_api.py ----
  cmd_queue,      \* self._cmd_queue: commands not yet taken by the core
  result_queue,   \* self._result_queue: results not yet taken by a handler
  core_cmd,       \* the command the processing side is working on, if any
  handler,        \* the requests whose handler occupies the event loop
  pc,             \* position of each request's handler
  kind,           \* endpoint of each request
  stopped,        \* restart_processor's local `stopped`: {} while unbound
  started,        \* restart_processor's local `started`: {} while unbound
  ret,            \* value returned by the handler / by restart_processor
  response,       \* HTTP status of update_config / config_calibrated_distance
  sent,           \* history: commands each request has put, in order
  got             \* history: results each request has taken, in order

apiVars == <<cmd_queue, result_queue, core_cmd, handler, pc, kind, stopped,
             started, ret, response, sent, got>>

VARIABLES
  \* ---- libs/distancing.py ----
  device,         \* self.device
  detector,       \* self.detector: NoDetector, Deleted or the instance number
  running_video,  \* self.running_video
  pv_pc,          \* position of the thread inside process_video
  pv_exit,        \* how the last process_video call ended
  prev_exit,      \* how the call before the current one ended
  calls,          \* process_video calls made so far
  input_cap,      \* the cv.VideoCapture of the current call
  frames_left,    \* frames the source can still decode
  out,            \* the 'default' VideoWriter of the current call
  out_birdseye,   \* the 'default-birdseye' VideoWriter of the current call
  cv_image,       \* the frame of the iteration in progress
  frame_num,      \* local frame counter
  n_out,          \* frames written to out in the current call
  n_bird,         \* frames written to out_birdseye in the current call
  n_log,          \* self.logger.update calls
  flag_set,       \* history: the current call has set running_video true
  has_read,       \* history: the current call has read from the source
  stop_in_call,   \* history: stop_process_video ran during the current call
  iter_after_stop,\* history: an iteration started after that stop
  idle_stop_at    \* history: the value of calls when stop_process_video last
                  \* ran outside a process_video call

vidVars == <<device, detector, running_video, pv_pc, pv_exit, prev_exit, calls,
             input_cap, frames_left, out, out_birdseye, cv_image, frame_num,
             n_out, n_bird, n_log, flag_set, has_read, stop_in_call,
             iter_after_stop, idle_stop_at>>

VARIABLES
  \* ---- libs/distancing.py: ignore_large_boxes, non_max_suppression_fast ----
  pp_pc,          \* which post-processing calls have been made
  pp_in,          \* object_list handed to the post-processor
  pp_thr,         \* overlapThresh, in tenths
  pp_filtered,    \* result of ignore_large_boxes(pp_in)
  pp_nms,         \* result of non_max_suppression_fast(pp_in, pp_thr)
  pp_order,       \* the order np.argsort gave in that call
  pp_nms2         \* result of non_max_suppression_fast(pp_nms, pp_thr)

ppVars == <<pp_pc, pp_in, pp_thr, pp_filtered, pp_nms, pp_order, pp_nms2>>

VARIABLES
  \* ---- libs/distancing.py: __init__ (calibration), calculate_box_distances ----
  d_pc,           \* "new", "constructed", "failed", "computed" or "raised"
  dist_method,    \* config PostProcessor.DistMethod
  calib_setting,  \* config App.CalibrationFile: absent, or what it names
  calib_file,     \* the numbers after "h_inv:" on the first line of that file
  float_kind,     \* number type of the detector's box values
  calib_opened,   \* history: __init__ looked up / opened the calibration file
  ctor_error,     \* exception raised by __init__
  h_inv,          \* self.h_inv
  nn_out,         \* argument of calculate_box_distances
  world_points,   \* world_coordinate_points
  distances,      \* returned matrix (each entry is the SQUARE of the distance)
  dist_error      \* exception raised by calculate_box_distances

distVars == <<d_pc, dist_method, calib_setting, calib_file, float_kind,
              calib_opened, ctor_error, h_inv, nn_out, world_points, distances,
              dist_error>>

VARIABLES
  \* ---- libs/distancing.py: one loop iteration on a valid frame ----
  \* (__process, calculate_distancing, the two writes, logger.update)
  f_pc,        \* the stage about to run, "raised" after an exception
  f_thr,       \* config PostProcessor.NMSThreshold, in tenths
  frame_count, \* frame_num of the stage-level loop
  f_objs,      \* tmp_objects_list / new_objects_list / objects
  f_tracked,   \* tracked_boxes, the values in the mapping's iteration order
  f_dist,      \* distances / distancings
  f_trace,     \* history: the stages run so far in this iteration
  f_nout,      \* history: out.write calls
  f_nbird,     \* history: out_birdseye.write calls
  f_nlog,      \* history: self.logger.update calls
  f_logged     \* history: the arguments of this iteration's logger.update

frameVars == <<f_pc, f_thr, frame_count, f_objs, f_tracked, f_dist, f_trace,
               f_nout, f_nbird, f_nlog, f_logged>>

VARIABLES
  \* ---- api/processor_api.py: ProcessorAPI._setup_queues ----
  setup_pc,     \* "connect", "sleep", "get_queues", "done" or "failed"
  endpoint,     \* the processing side's queue manager: "down" or "up"
  queues,       \* which of self._cmd_queue / self._result_queue are bound
  was_refused   \* history: a connect() was refused

setupVars == <<setup_pc, endpoint, queues, was_refused>>

vars == <<apiVars, vidVars, ppVars, distVars, frameVars, setupVars>>

\* what the actions of one component leave alone
notApi == <<vidVars, ppVars, distVars, frameVars, setupVars>>
notVideo == <<apiVars, ppVars, distVars, frameVars, setupVars>>
notPost == <<apiVars, vidVars, distVars, frameVars, setupVars>>
notDist == <<apiVars, vidVars, ppVars, frameVars, setupVars>>
notFrame == <<apiVars, vidVars, ppVars, distVars, setupVars>>
notSetup == <<apiVars, vidVars, ppVars, distVars, frameVars>>

STOP_PROCESS_VIDEO == "STOP_PROCESS_VIDEO"
PROCESS_VIDEO_CFG == "PROCESS_VIDEO_CFG"

SimpleKinds == {"process_video_cfg", "stop_process_video"}
RestartKinds == {"update_config", "config_calibrated_distance"}
Kinds == SimpleKinds \cup RestartKinds

(***************************************************************************)
(* Control channel                                                         *)
(***************************************************************************)
InitRequests ==
  /\ cmd_queue = <<>>
  /\ result_queue = <<>>
  /\ core_cmd = <<>>
  /\ handler = {}
  /\ pc = [r \in Reqs |-> "idle"]
  /\ kind = [r \in Reqs |-> NoVal]
  /\ stopped = [r \in Reqs |-> {}]
  /\ started = [r \in Reqs |-> {}]
  /\ ret = [r \in Reqs |-> {}]
  /\ response = [r \in Reqs |-> 0]
  /\ sent = [r \in Reqs |-> <<>>]
  /\ got = [r \in Reqs |-> <<>>]

\* _setup_queues has returned: connected, both queue proxies bound
SetupDone ==
  /\ setup_pc = "done"
  /\ endpoint = "up"
  /\ queues = {"cmd", "result"}

\* ProcessorAPI.__init__ has returned and start() runs the app
InitApi == InitRequests /\ SetupDone /\ was_refused = FALSE

\* _setup_queues is entered: nothing connected yet
SetupStart ==
  /\ setup_pc = "connect"
  /\ endpoint \in {"down", "up"}
  /\ queues = {}
  /\ was_refused = FALSE

\* except ConnectionRefusedError: logger.warning(...); time.sleep(1)
OnRefused_GiveUp == "failed"
OnRefused == "sleep"

\* self._queue_manager.connect() inside while True / try; break on success
Connect ==
  /\ setup_pc = "connect"
  /\ IF endpoint = "up"
       THEN /\ setup_pc' = "get_queues"
            /\ UNCHANGED was_refused
       ELSE /\ setup_pc' = OnRefused
            /\ was_refused' = TRUE
  /\ UNCHANGED <<endpoint, queues>>
  /\ UNCHANGED notSetup

\* time.sleep(1) returns and the loop tries again
SleepOver ==
  /\ setup_pc = "sleep"
  /\ setup_pc' = "connect"
  /\ UNCHANGED <<endpoint, queues, was_refused>>
  /\ UNCHANGED notSetup

\* self._cmd_queue = ...get_cmd_queue(); self._result_queue = ...get_result_queue()
GetQueues ==
  /\ setup_pc = "get_queues"
  /\ queues' = {"cmd", "result"}
  /\ setup_pc' = "done"
  /\ UNCHANGED <<endpoint, was_refused>>
  /\ UNCHANGED notSetup

\* The processing side starts serving its queues
EndpointStarts ==
  /\ endpoint = "down"
  /\ endpoint' = "up"
  /\ UNCHANGED <<setup_pc, queues, was_refused>>
  /\ UNCHANGED notSetup

SetupStep == Connect \/ SleepOver \/ GetQueues

\* self.app exists and uvicorn serves it only after __init__ returned
AppServing == setup_pc = "done"

\* The handlers are `async def` bodies without any await: a handler keeps the
\* single event loop of uvicorn.run from its first statement to its return.
EventLoopFree_Threaded == TRUE
EventLoopFree == handler = {}

\* self._cmd_queue.put(c) by request r
Put(r, c) ==
  /\ cmd_queue' = Append(cmd_queue, [cmd |-> c, by |-> r])
  /\ sent' = [sent EXCEPT ![r] = Append(@, c)]

\* self._result_queue.get() by request r: blocks while the queue is empty
CanGet == Len(result_queue) > 0
Get(r) ==
  /\ CanGet
  /\ result_queue' = Tail(result_queue)
  /\ got' = [got EXCEPT ![r] = Append(@, Head(result_queue))]

CommandOf(k) ==
  IF k = "stop_process_video" THEN STOP_PROCESS_VIDEO ELSE PROCESS_VIDEO_CFG

\* A request reaches its handler
Accept(r, k) ==
  /\ pc[r] = "idle"
  /\ AppServing
  /\ EventLoopFree
  /\ handler' = handler \cup {r}
  /\ kind' = [kind EXCEPT ![r] = k]
  /\ pc' = [pc EXCEPT ![r] = IF k \in RestartKinds THEN "r_put_stop" ELSE "put"]
  /\ UNCHANGED <<cmd_queue, result_queue, core_cmd, stopped, started, ret,
                 response, sent, got>>
  /\ UNCHANGED notApi

\* process_video_cfg / stop_process_video: put the command
HandlerPut(r) ==
  /\ pc[r] = "put"
  /\ Put(r, CommandOf(kind[r]))
  /\ pc' = [pc EXCEPT ![r] = "get"]
  /\ UNCHANGED <<result_queue, core_cmd, handler, kind, stopped, started, ret,
                 response, got>>
  /\ UNCHANGED notApi

\* process_video_cfg / stop_process_video: wait for the result, return it
HandlerGet(r) ==
  /\ pc[r] = "get"
  /\ Get(r)
  /\ ret' = [ret EXCEPT ![r] = {Head(result_queue).val}]
  /\ response' = [response EXCEPT ![r] = 200]
  /\ pc' = [pc EXCEPT ![r] = "done"]
  /\ handler' = handler \ {r}
  /\ UNCHANGED <<cmd_queue, core_cmd, kind, stopped, started, sent>>
  /\ UNCHANGED notApi

\* restart_processor: self._cmd_queue.put(Commands.STOP_PROCESS_VIDEO)
RestartPutStop(r) ==
  /\ pc[r] = "r_put_stop"
  /\ Put(r, STOP_PROCESS_VIDEO)
  /\ pc' = [pc EXCEPT ![r] = "r_get_stop"]
  /\ UNCHANGED <<result_queue, core_cmd, handler, kind, stopped, started, ret,
                 response, got>>
  /\ UNCHANGED notApi

\* restart_processor: `if stopped:`
IfStopped_Always(s) == TRUE
IfStopped(s) == s = TRUE

\* restart_processor: stopped = self._result_queue.get(); if stopped: ...
RestartGetStop(r) ==
  /\ pc[r] = "r_get_stop"
  /\ Get(r)
  /\ stopped' = [stopped EXCEPT ![r] = {Head(result_queue).val}]
  /\ pc' = [pc EXCEPT ![r] =
              IF IfStopped(Head(result_queue).val) THEN "r_put_start"
                                                   ELSE "r_return"]
  /\ UNCHANGED <<cmd_queue, core_cmd, handler, kind, started, ret, response,
                 sent>>
  /\ UNCHANGED notApi

\* restart_processor: self._cmd_queue.put(Commands.PROCESS_VIDEO_CFG)
RestartPutStart(r) ==
  /\ pc[r] = "r_put_start"
  /\ Put(r, PROCESS_VIDEO_CFG)
  /\ pc' = [pc EXCEPT ![r] = "r_get_start"]
  /\ UNCHANGED <<result_queue, core_cmd, handler, kind, stopped, started, ret,
                 response, got>>
  /\ UNCHANGED notApi

\* restart_processor: started = self._result_queue.get()
RestartGetStart(r) ==
  /\ pc[r] = "r_get_start"
  /\ Get(r)
  /\ started' = [started EXCEPT ![r] = {Head(result_queue).val}]
  /\ pc' = [pc EXCEPT ![r] = "r_return"]
  /\ UNCHANGED <<cmd_queue, core_cmd, handler, kind, stopped, ret, response,
                 sent>>
  /\ UNCHANGED notApi

\* restart_processor's return value: False only on the `if not started` path,
\* which is inside `if stopped:`; every other path reaches `return True`.
RestartResult(st, sd) == ~(st = {TRUE} /\ sd = {FALSE})

\* update_config / config_calibrated_distance: success = restart_processor();
\* 400 'Failed to restart video processor' if not success, else 200.
RestartReturn(r) ==
  /\ pc[r] = "r_return"
  /\ ret' = [ret EXCEPT ![r] = {RestartResult(stopped[r], started[r])}]
  /\ response' = [response EXCEPT ![r] =
                    IF RestartResult(stopped[r], started[r]) THEN 200 ELSE 400]
  /\ pc' = [pc EXCEPT ![r] = "done"]
  /\ handler' = handler \ {r}
  /\ UNCHANGED <<cmd_queue, result_queue, core_cmd, kind, stopped, started,
                 sent, got>>
  /\ UNCHANGED notApi

\* The processing side takes the next command from the command queue
CoreTake ==
  /\ core_cmd = <<>>
  /\ Len(cmd_queue) > 0
  /\ core_cmd' = <<Head(cmd_queue)>>
  /\ cmd_queue' = Tail(cmd_queue)
  /\ UNCHANGED <<result_queue, handler, pc, kind, stopped, started, ret,
                 response, sent, got>>
  /\ UNCHANGED notApi

\* The processing side replies with a boolean success result
CoreReply(b) ==
  /\ core_cmd # <<>>
  /\ result_queue' = Append(result_queue,
                            [val |-> b, cmd |-> core_cmd[1].cmd,
                             for |-> core_cmd[1].by])
  /\ core_cmd' = <<>>
  /\ UNCHANGED <<cmd_queue, handler, pc, kind, stopped, started, ret, response,
                 sent, got>>
  /\ UNCHANGED notApi

ApiStep ==
  \/ \E r \in Reqs, k \in Kinds : Accept(r, k)
  \/ \E r \in Reqs : HandlerPut(r)
  \/ \E r \in Reqs : HandlerGet(r)
  \/ \E r \in Reqs : RestartPutStop(r)
  \/ \E r \in Reqs : RestartGetStop(r)
  \/ \E r \in Reqs : RestartPutStart(r)
  \/ \E r \in Reqs : RestartGetStart(r)
  \/ \E r \in Reqs : RestartReturn(r)
  \/ CoreTake
  \/ \E b \in BOOLEAN : CoreReply(b)

(***************************************************************************)
(* Distancing.process_video / Distancing.stop_process_video                *)
(***************************************************************************)
Devices == {"Jetson", "EdgeTPU", "Dummy", "x86", "Other"}
Supported == {"Jetson", "EdgeTPU", "Dummy", "x86"}

NoDetector == 0    \* self.detector = None
\* no stop_process_video() has run outside a process_video call
NoIdleStop == -1
Deleted == -1      \* after `del self.detector`

LoopPcs == {"loop", "read", "skip", "process", "write_out", "write_birdseye",
            "log"}

\* Distancing.__init__
InitVideo ==
  /\ device \in Devices
  /\ detector = NoDetector
  /\ running_video = FALSE
  /\ pv_pc = "idle"
  /\ pv_exit = NoVal
  /\ prev_exit = NoVal
  /\ calls = 0
  /\ input_cap = NoVal
  /\ frames_left = 0
  /\ out = NoVal
  /\ out_birdseye = NoVal
  /\ cv_image = NoVal
  /\ frame_num = 0
  /\ n_out = 0
  /\ n_bird = 0
  /\ n_log = 0
  /\ flag_set = FALSE
  /\ has_read = FALSE
  /\ stop_in_call = FALSE
  /\ iter_after_stop = FALSE
  /\ idle_stop_at = NoIdleStop

\* process_video(video_uri) is called; its locals do not exist yet
StartCall ==
  /\ pv_pc = "idle"
  /\ calls < MaxCalls
  /\ calls' = calls + 1
  /\ pv_pc' = "detector"
  /\ prev_exit' = pv_exit
  /\ pv_exit' = NoVal
  /\ input_cap' = NoVal
  /\ out' = NoVal
  /\ out_birdseye' = NoVal
  /\ cv_image' = NoVal
  /\ frame_num' = 0
  /\ frames_left' = 0
  /\ n_out' = 0
  /\ n_bird' = 0
  /\ flag_set' = FALSE
  /\ has_read' = FALSE
  /\ stop_in_call' = FALSE
  /\ iter_after_stop' = FALSE
  /\ UNCHANGED <<device, detector, running_video, n_log>>
  /\ UNCHANGED idle_stop_at
  /\ UNCHANGED notVideo

\* An exception leaves process_video: no statement after the raising one runs
Raise(why) ==
  /\ pv_pc' = "idle"
  /\ pv_exit' = why

\* the dispatch without the read of self.detector.name
ConstructDetector_NoNameRead(ok) ==
  /\ pv_pc = "detector"
  /\ IF device \in Supported /\ ~ok
       THEN /\ Raise("detector_failed")
            /\ UNCHANGED detector
       ELSE /\ detector' = IF device \in Supported THEN calls ELSE detector
            /\ pv_pc' = "open"
            /\ UNCHANGED pv_exit
  /\ UNCHANGED <<device, running_video, prev_exit, calls, input_cap,
                 frames_left, out, out_birdseye, cv_image, frame_num, n_out,
                 n_bird, n_log, flag_set, has_read, stop_in_call,
                 iter_after_stop>>
  /\ UNCHANGED idle_stop_at
  /\ UNCHANGED notVideo

\* if self.device == ...: self.detector = Detector(self.config);
\* if self.device != 'Dummy': print(..., self.detector.name)
ConstructDetector(ok) ==
  /\ pv_pc = "detector"
  /\ IF device \in Supported
       THEN IF ok THEN /\ detector' = calls
                       /\ pv_pc' = "open"
                       /\ UNCHANGED pv_exit
                  ELSE /\ Raise("detector_failed")
                       /\ UNCHANGED detector
       ELSE /\ Raise("unsupported_device")
            /\ UNCHANGED detector
  /\ UNCHANGED <<device, running_video, prev_exit, calls, input_cap,
                 frames_left, out, out_birdseye, cv_image, frame_num, n_out,
                 n_bird, n_log, flag_set, has_read, stop_in_call,
                 iter_after_stop>>
  /\ UNCHANGED idle_stop_at
  /\ UNCHANGED notVideo

\* input_cap = cv.VideoCapture(video_uri); if not isOpened(): log, return
OpenSource_NoReturn(openable, n) ==
  /\ pv_pc = "open"
  /\ IF openable
       THEN /\ input_cap' = "open"
            /\ frames_left' = n
       ELSE /\ input_cap' = "unopened"
            /\ frames_left' = 0
  /\ pv_pc' = "set_running"
  /\ UNCHANGED <<device, detector, running_video, pv_exit, prev_exit, calls,
                 out, out_birdseye, cv_image, frame_num, n_out, n_bird, n_log,
                 flag_set, has_read, stop_in_call, iter_after_stop>>
  /\ UNCHANGED idle_stop_at
  /\ UNCHANGED notVideo
OpenSource(openable, n) ==
  /\ pv_pc = "open"
  /\ IF openable
       THEN /\ input_cap' = "open"
            /\ frames_left' = n
            /\ pv_pc' = "set_running"
            /\ UNCHANGED pv_exit
       ELSE /\ input_cap' = "unopened"
            /\ frames_left' = 0
            /\ pv_pc' = "idle"
            /\ pv_exit' = "open_failed"
  /\ UNCHANGED <<device, detector, running_video, prev_exit, calls, out,
                 out_birdseye, cv_image, frame_num, n_out, n_bird, n_log,
                 flag_set, has_read, stop_in_call, iter_after_stop>>
  /\ UNCHANGED idle_stop_at
  /\ UNCHANGED notVideo

\* process_video without the assignment of line 152
SetRunning_FlagUntouched ==
  /\ pv_pc = "set_running"
  /\ flag_set' = TRUE
  /\ pv_pc' = "writer_out"
  /\ UNCHANGED <<device, detector, running_video, pv_exit, prev_exit, calls,
                 input_cap, frames_left, out, out_birdseye, cv_image, frame_num,
                 n_out, n_bird, n_log, has_read, stop_in_call, iter_after_stop>>
  /\ UNCHANGED idle_stop_at
  /\ UNCHANGED notVideo

\* self.running_video = True
SetRunning ==
  /\ pv_pc = "set_running"
  /\ running_video' = TRUE
  /\ flag_set' = TRUE
  /\ pv_pc' = "writer_out"
  /\ UNCHANGED <<device, detector, pv_exit, prev_exit, calls, input_cap,
                 frames_left, out, out_birdseye, cv_image, frame_num, n_out,
                 n_bird, n_log, has_read, stop_in_call, iter_after_stop>>
  /\ UNCHANGED idle_stop_at
  /\ UNCHANGED notVideo

\* gstreamer_writer('default', ...): raises RuntimeError if not out.isOpened()
OpenWriterOut(ok) ==
  /\ pv_pc = "writer_out"
  /\ IF ok THEN /\ out' = "open"
                /\ pv_pc' = "writer_birdseye"
                /\ UNCHANGED pv_exit
           ELSE /\ Raise("sink_open_failed")
                /\ UNCHANGED out
  /\ UNCHANGED <<device, detector, running_video, prev_exit, calls, input_cap,
                 frames_left, out_birdseye, cv_image, frame_num, n_out, n_bird,
                 n_log, flag_set, has_read, stop_in_call, iter_after_stop>>
  /\ UNCHANGED idle_stop_at
  /\ UNCHANGED notVideo

\* gstreamer_writer('default-birdseye', ...); dist_threshold, class_id,
\* frame_num = 0.  When it raises, the first writer was never bound to `out`:
\* the interpreter may or may not have finalized it when the call ends.
OpenWriterBirdseye(ok, dropped) ==
  /\ pv_pc = "writer_birdseye"
  /\ IF ok THEN /\ out_birdseye' = "open"
                /\ frame_num' = 0
                /\ pv_pc' = "loop"
                /\ UNCHANGED <<pv_exit, out>>
           ELSE /\ Raise("sink_open_failed")
                /\ out' = dropped
                /\ UNCHANGED <<out_birdseye, frame_num>>
  /\ UNCHANGED <<device, detector, running_video, prev_exit, calls, input_cap,
                 frames_left, cv_image, n_out, n_bird, n_log, flag_set,
                 has_read, stop_in_call, iter_after_stop>>
  /\ UNCHANGED idle_stop_at
  /\ UNCHANGED notVideo

\* while input_cap.isOpened() and self.running_video:
LoopCondition == input_cap = "open" /\ running_video

LoopCheck ==
  /\ pv_pc = "loop"
  /\ IF LoopCondition
       THEN /\ pv_pc' = "read"
            /\ iter_after_stop' = (iter_after_stop \/ stop_in_call)
       ELSE /\ pv_pc' = "release"
            /\ UNCHANGED iter_after_stop
  /\ UNCHANGED <<device, detector, running_video, pv_exit, prev_exit, calls,
                 input_cap, frames_left, out, out_birdseye, cv_image,
                 frame_num, n_out, n_bird, n_log, flag_set, has_read,
                 stop_in_call>>
  /\ UNCHANGED idle_stop_at
  /\ UNCHANGED notVideo

\* What input_cap.read() can deliver: a frame while the source holds one (or
\* an undecodable one), nothing but empty frames once it is exhausted/closed
Readable ==
  IF input_cap = "open" /\ frames_left > 0 THEN {"valid", "empty"}
                                            ELSE {"empty"}

\* _, cv_image = input_cap.read(); if np.shape(cv_image) != (): ... else: ...
ReadFrame(f) ==
  /\ pv_pc = "read"
  /\ f \in Readable
  /\ cv_image' = f
  /\ has_read' = TRUE
  /\ frames_left' = IF f = "valid" THEN frames_left - 1 ELSE frames_left
  /\ pv_pc' = IF f = "valid" THEN "process" ELSE "skip"
  /\ UNCHANGED <<device, detector, running_video, pv_exit, prev_exit, calls,
                 input_cap, out, out_birdseye, frame_num, n_out, n_bird, n_log,
                 flag_set, stop_in_call, iter_after_stop>>
  /\ UNCHANGED idle_stop_at
  /\ UNCHANGED notVideo

\* else: continue
SkipEmpty_Break ==
  /\ pv_pc = "skip"
  /\ pv_pc' = "release"
  /\ UNCHANGED <<device, detector, running_video, pv_exit, prev_exit, calls,
                 input_cap, frames_left, out, out_birdseye, cv_image,
                 frame_num, n_out, n_bird, n_log, flag_set, has_read,
                 stop_in_call, iter_after_stop>>
  /\ UNCHANGED idle_stop_at
  /\ UNCHANGED notVideo
SkipEmpty ==
  /\ pv_pc = "skip"
  /\ pv_pc' = "loop"
  /\ UNCHANGED <<device, detector, running_video, pv_exit, prev_exit, calls,
                 input_cap, frames_left, out, out_birdseye, cv_image,
                 frame_num, n_out, n_bird, n_log, flag_set, has_read,
                 stop_in_call, iter_after_stop>>
  /\ UNCHANGED idle_stop_at
  /\ UNCHANGED notVideo

\* self.__process(cv_image), visualization, fps and env-score overlays
ProcessFrame(ok) ==
  /\ pv_pc = "process"
  /\ IF ok THEN /\ pv_pc' = "write_out"
                /\ UNCHANGED pv_exit
           ELSE Raise("raised_in_loop")
  /\ UNCHANGED <<device, detector, running_video, prev_exit, calls, input_cap,
                 frames_left, out, out_birdseye, cv_image, frame_num, n_out,
                 n_bird, n_log, flag_set, has_read, stop_in_call,
                 iter_after_stop>>
  /\ UNCHANGED idle_stop_at
  /\ UNCHANGED notVideo

\* out.write(cv_image)
WriteOut(ok) ==
  /\ pv_pc = "write_out"
  /\ IF ok THEN /\ n_out' = n_out + 1
                /\ pv_pc' = "write_birdseye"
                /\ UNCHANGED pv_exit
           ELSE /\ Raise("raised_in_loop")
                /\ UNCHANGED n_out
  /\ UNCHANGED <<device, detector, running_video, prev_exit, calls, input_cap,
                 frames_left, out, out_birdseye, cv_image, frame_num, n_bird,
                 n_log, flag_set, has_read, stop_in_call, iter_after_stop>>
  /\ UNCHANGED idle_stop_at
  /\ UNCHANGED notVideo

\* out_birdseye.write(birds_eye_window); frame_num += 1; progress log line
WriteBirdseye(ok) ==
  /\ pv_pc = "write_birdseye"
  /\ IF ok THEN /\ n_bird' = n_bird + 1
                /\ frame_num' = frame_num + 1
                /\ pv_pc' = "log"
                /\ UNCHANGED pv_exit
           ELSE /\ Raise("raised_in_loop")
                /\ UNCHANGED <<n_bird, frame_num>>
  /\ UNCHANGED <<device, detector, running_video, prev_exit, calls, input_cap,
                 frames_left, out, out_birdseye, cv_image, n_out, n_log,
                 flag_set, has_read, stop_in_call, iter_after_stop>>
  /\ UNCHANGED idle_stop_at
  /\ UNCHANGED notVideo

\* self.logger.update(objects, distancings)
LoggerUpdate(ok) ==
  /\ pv_pc = "log"
  /\ IF ok THEN /\ n_log' = n_log + 1
                /\ pv_pc' = "loop"
                /\ UNCHANGED pv_exit
           ELSE /\ Raise("raised_in_loop")
                /\ UNCHANGED n_log
  /\ UNCHANGED <<device, detector, running_video, prev_exit, calls, input_cap,
                 frames_left, out, out_birdseye, cv_image, frame_num, n_out,
                 n_bird, flag_set, has_read, stop_in_call, iter_after_stop>>
  /\ UNCHANGED idle_stop_at
  /\ UNCHANGED notVideo

\* input_cap.release(); out.release(); out_birdseye.release();
\* del self.detector; self.running_video = False
Release_KeepBirdseye ==
  /\ pv_pc = "release"
  /\ input_cap' = "released"
  /\ out' = "released"
  /\ detector' = Deleted
  /\ running_video' = FALSE
  /\ pv_pc' = "idle"
  /\ pv_exit' = "loop_exit"
  /\ UNCHANGED <<device, prev_exit, calls, frames_left, cv_image, frame_num,
                 out_birdseye, n_out, n_bird, n_log, flag_set, has_read,
                 stop_in_call, iter_after_stop>>
  /\ UNCHANGED idle_stop_at
  /\ UNCHANGED notVideo
Release ==
  /\ pv_pc = "release"
  /\ input_cap' = "released"
  /\ out' = "released"
  /\ out_birdseye' = "released"
  /\ detector' = Deleted
  /\ running_video' = FALSE
  /\ pv_pc' = "idle"
  /\ pv_exit' = "loop_exit"
  /\ UNCHANGED <<device, prev_exit, calls, frames_left, cv_image, frame_num,
                 n_out, n_bird, n_log, flag_set, has_read, stop_in_call,
                 iter_after_stop>>
  /\ UNCHANGED idle_stop_at
  /\ UNCHANGED notVideo

\* stop_process_video(), called from another thread: self.running_video = False
StopProcessVideo ==
  /\ running_video' = FALSE
  /\ stop_in_call' = (stop_in_call \/ pv_pc # "idle")
  /\ idle_stop_at' = IF pv_pc = "idle" THEN calls ELSE idle_stop_at
  /\ UNCHANGED <<device, detector, pv_pc, pv_exit, prev_exit, calls, input_cap,
                 frames_left, out, out_birdseye, cv_image, frame_num, n_out,
                 n_bird, n_log, flag_set, has_read, iter_after_stop>>
  /\ UNCHANGED notVideo

\* The source stops being open under the loop (stream dropped): isOpened()
\* turns false
SourceCloses ==
  /\ input_cap = "open"
  /\ pv_pc \in LoopPcs
  /\ input_cap' = "dead"
  /\ UNCHANGED <<device, detector, running_video, pv_pc, pv_exit, prev_exit,
                 calls, frames_left, out, out_birdseye, cv_image, frame_num,
                 n_out, n_bird, n_log, flag_set, has_read, stop_in_call,
                 iter_after_stop>>
  /\ UNCHANGED idle_stop_at
  /\ UNCHANGED notVideo

\* The steps of the thread that runs process_video
ProcessVideoStep ==
  \/ \E ok \in BOOLEAN : ConstructDetector(ok)
  \/ \E openable \in BOOLEAN, n \in 0..MaxFrames : OpenSource(openable, n)
  \/ SetRunning
  \/ \E ok \in BOOLEAN : OpenWriterOut(ok)
  \/ \E ok \in BOOLEAN, dropped \in {"open", "released"} :
        OpenWriterBirdseye(ok, dropped)
  \/ LoopCheck
  \/ \E f \in {"valid", "empty"} : ReadFrame(f)
  \/ SkipEmpty
  \/ \E ok \in BOOLEAN : ProcessFrame(ok)
  \/ \E ok \in BOOLEAN : WriteOut(ok)
  \/ \E ok \in BOOLEAN : WriteBirdseye(ok)
  \/ \E ok \in BOOLEAN : LoggerUpdate(ok)
  \/ Release

VideoStep ==
  \/ StartCall
  \/ ProcessVideoStep
  \/ StopProcessVideo
  \/ SourceCloses

(***************************************************************************)
(* Detection post-processor: ignore_large_boxes, non_max_suppression_fast  *)
(*                                                                         *)
(* Normalized coordinates are fixed-point numbers: Unit stands for 1.0.    *)
(* All coordinates are even, so (x0 + x1) / 2 and h / 2 are exact.         *)
(***************************************************************************)
Unit == 100

\* Distancing.__process: the fields derived from a detector box
\*   obj["centroid"] = [(x0 + x1) / 2, (y0 + y1) / 2, x1 - x0, y1 - y0]
\*   obj["bbox"] = [x0, y0, x1, y1]
Detection(x0, y0, x1, y1) ==
  [bbox |-> <<x0, y0, x1, y1>>,
   centroid |-> <<(x0 + x1) \div 2, (y0 + y1) \div 2, x1 - x0, y1 - y0>>]

\* The detections of the model: boxes on the half-frame grid, and the two
\* boxes (0.1, 0.1, 0.3, 0.3) and (0.12, 0.12, 0.32, 0.32)
GridCoords == {0, Unit \div 2, Unit}
BoxA == Detection(10, 10, 30, 30)
BoxB == Detection(12, 12, 32, 32)
Detections ==
  {Detection(x0, y0, x1, y1) :
      <<x0, y0, x1, y1>> \in {q \in GridCoords \X GridCoords \X GridCoords \X GridCoords :
                                q[1] < q[3] /\ q[2] < q[4]}}
  \cup {BoxA, BoxB}

DetectionLists == UNION {[1..n -> Detections] : n \in 0..MaxDet}

\* overlapThresh values, in tenths
Thresholds == {3, 6, 9}

\* (centroid[2] * centroid[3]) > 0.25
IsLargeBox_Inclusive(obj) ==
  4 * obj.centroid[3] * obj.centroid[4] >= Unit * Unit
IsLargeBox(obj) ==
  4 * obj.centroid[3] * obj.centroid[4] > Unit * Unit

\* for i in range(len(object_list)): if ... > 0.25: large_boxes.append(i)
RECURSIVE LargeBoxes(_, _)
LargeBoxes(object_list, i) ==
  IF i > Len(object_list) THEN <<>>
  ELSE IF IsLargeBox(object_list[i])
         THEN <<i>> \o LargeBoxes(object_list, i + 1)
         ELSE LargeBoxes(object_list, i + 1)

InSeq(x, sq) == \E k \in 1..Len(sq) : sq[k] = x

\* [j for i, j in enumerate(object_list) if i not in large_boxes]
RECURSIVE WithoutIndexes(_, _, _)
WithoutIndexes(object_list, idx, i) ==
  IF i > Len(object_list) THEN <<>>
  ELSE IF InSeq(i, idx)
         THEN WithoutIndexes(object_list, idx, i + 1)
         ELSE <<object_list[i]>> \o WithoutIndexes(object_list, idx, i + 1)

ignore_large_boxes(object_list) ==
  WithoutIndexes(object_list, LargeBoxes(object_list, 1), 1)

\* cy + (h / 2)
SortKey(obj) == obj.centroid[2] + obj.centroid[4] \div 2

\* area = (h + 1) * (w + 1)
Area(obj) == (obj.centroid[4] + Unit) * (obj.centroid[3] + Unit)

Max2(a, b) == IF a >= b THEN a ELSE b
Min2(a, b) == IF a <= b THEN a ELSE b

\* w = np.maximum(0, xx2 - xx1 + 1); h = np.maximum(0, yy2 - yy1 + 1)
\* for the picked detection i and another detection j; the product w * h
Intersection(oi, oj) ==
  LET xx1 == Max2(oi.bbox[1], oj.bbox[1])
      yy1 == Max2(oi.bbox[2], oj.bbox[2])
      xx2 == Min2(oi.bbox[3], oj.bbox[3])
      yy2 == Min2(oi.bbox[4], oj.bbox[4])
  IN  Max2(0, xx2 - xx1 + Unit) * Max2(0, yy2 - yy1 + Unit)

\* overlap = (w * h) / area[idxs[:last]]; overlap > overlapThresh
Overlaps_PickedArea(oi, oj, thr) == 10 * Intersection(oi, oj) > thr * Area(oi)
Overlaps(oi, oj, thr) == 10 * Intersection(oi, oj) > thr * Area(oj)

\* np.argsort(cy + (h / 2)): the indexes in ascending key order; the default
\* sort kind is not stable, the order of equal keys is whatever it produces
IndexOrders(n) ==
  {p \in [1..n -> 1..n] : \A a, b \in 1..n : a # b => p[a] # p[b]}

Orders(object_list) ==
  {p \in IndexOrders(Len(object_list)) :
     \A a, b \in 1..Len(object_list) :
          a < b => SortKey(object_list[p[a]]) <= SortKey(object_list[p[b]])}

\* the indexes of rest = idxs[:last] that survive
\* np.delete(idxs, [last] + np.where(overlap > overlapThresh)[0])
RECURSIVE Survivors(_, _, _, _)
Survivors(object_list, rest, i, thr) ==
  IF Len(rest) = 0 THEN <<>>
  ELSE IF Overlaps(object_list[i], object_list[Head(rest)], thr)
         THEN Survivors(object_list, Tail(rest), i, thr)
         ELSE <<Head(rest)>> \o Survivors(object_list, Tail(rest), i, thr)

\* while len(idxs) > 0: last = len(idxs) - 1; i = idxs[last]; pick.append(i);
\* idxs = np.delete(...)
RECURSIVE PickLoop_First(_, _, _)
PickLoop_First(object_list, idxs, thr) ==
  IF Len(idxs) = 0 THEN <<>>
  ELSE LET i == idxs[1]
       IN  <<i>> \o PickLoop_First(object_list,
                                   Survivors(object_list, Tail(idxs), i, thr),
                                   thr)
RECURSIVE PickLoop(_, _, _)
PickLoop(object_list, idxs, thr) ==
  IF Len(idxs) = 0 THEN <<>>
  ELSE LET i == idxs[Len(idxs)]
       IN  <<i>> \o PickLoop(object_list,
                             Survivors(object_list,
                                       SubSeq(idxs, 1, Len(idxs) - 1), i, thr),
                             thr)

\* non_max_suppression_fast(object_list, overlapThresh), given the order that
\* np.argsort produced:  [j for i, j in enumerate(object_list) if i in pick]
KeepIndexes_PickOrder(object_list, pick) ==
  [k \in 1..Len(pick) |-> object_list[pick[k]]]
KeepIndexes(object_list, pick) ==
  WithoutIndexes(object_list,
                 SelectSeq([k \in 1..Len(object_list) |-> k],
                           LAMBDA k : ~InSeq(k, pick)), 1)

non_max_suppression_fast(object_list, thr, order) ==
  IF Len(object_list) = 0 THEN <<>>
  ELSE KeepIndexes(object_list, PickLoop(object_list, order, thr))

IdlePost ==
  /\ pp_pc = "off"
  /\ pp_in = <<>>
  /\ pp_thr = 3
  /\ pp_filtered = <<>>
  /\ pp_nms = <<>>
  /\ pp_order = <<>>
  /\ pp_nms2 = <<>>

InitPost ==
  /\ pp_pc = "input"
  /\ pp_in \in DetectionLists
  /\ pp_thr \in Thresholds
  /\ pp_filtered = <<>>
  /\ pp_nms = <<>>
  /\ pp_order = <<>>
  /\ pp_nms2 = <<>>

\* ignore_large_boxes(object_list)
ApplyIgnoreLargeBoxes ==
  /\ pp_pc = "input"
  /\ pp_filtered' = ignore_large_boxes(pp_in)
  /\ pp_pc' = "filtered"
  /\ UNCHANGED <<pp_in, pp_thr, pp_nms, pp_order, pp_nms2>>
  /\ UNCHANGED notPost

\* non_max_suppression_fast(object_list, overlapThresh)
ApplyNMS(order) ==
  /\ pp_pc = "filtered"
  /\ order \in Orders(pp_in)
  /\ pp_order' = order
  /\ pp_nms' = non_max_suppression_fast(pp_in, pp_thr, order)
  /\ pp_pc' = "nms"
  /\ UNCHANGED <<pp_in, pp_thr, pp_filtered, pp_nms2>>
  /\ UNCHANGED notPost

\* non_max_suppression_fast run again on its own output.  np.argsort is a
\* function of its argument: on the same key array it gives the same order.
ApplyNMSAgain(order) ==
  /\ pp_pc = "nms"
  /\ order \in Orders(pp_nms)
  /\ (pp_nms = pp_in) => (order = pp_order)
  /\ pp_nms2' = non_max_suppression_fast(pp_nms, pp_thr, order)
  /\ pp_pc' = "nms_again"
  /\ UNCHANGED <<pp_in, pp_thr, pp_filtered, pp_nms, pp_order>>
  /\ UNCHANGED notPost

NextPost ==
  \/ ApplyIgnoreLargeBoxes
  \/ \E n \in 0..MaxDet : \E order \in IndexOrders(n) : ApplyNMS(order)
  \/ \E n \in 0..MaxDet : \E order \in IndexOrders(n) : ApplyNMSAgain(order)

(***************************************************************************)
(* Distance estimator: Distancing.__init__ (calibration file),             *)
(* calculate_distance_of_two_points_of_boxes, calculate_box_distances,     *)
(* transform_to_world_coordinate                                           *)
(*                                                                         *)
(* Pixel coordinates are integers.  A distance is carried as its square, a *)
(* fraction n / d, so that the square root needs no approximation; inf and *)
(* nan are the IEEE values numpy arithmetic produces.                      *)
(***************************************************************************)
CALIBRATED == "CalibratedDistance"
CENTER == "CenterPointsDistance"
FOURCORNER == "FourCornerPointsDistance"
DistMethods == {CALIBRATED, CENTER, FOURCORNER}

PersonHeight == 170

\* Distancing.__process: the pixel-scaled fields (already multiplied by w, h)
\*   obj["centroidReal"] = [(x0 + x1) / 2, (y0 + y1) / 2, x1 - x0, y1 - y0]
\*   obj["bboxReal"] = [x0, y0, x1, y1]
\* the first two centroidReal components are carried doubled: x0 + x1, y0 + y1
TrackedObject(x0, y0, x1, y1) ==
  [bboxReal |-> <<x0, y0, x1, y1>>,
   centroidReal2 |-> <<x0 + x1, y0 + y1>>,
   height |-> y1 - y0]

PixelXs == {0, 1}
\* the rows a box spans, <<y0, y1>>: heights 0, 1 and 2
PixelRows == {<<0, 0>>, <<0, 1>>, <<1, 3>>}
ObjP == TrackedObject(-50, -50, 50, 50)     \* height 100, center (0, 0)
ObjQ == TrackedObject(50, -50, 150, 50)     \* height 100, center (100, 0)
TrackedObjects ==
  {TrackedObject(q[1], q[3][1], q[2], q[3][2]) :
      q \in {q \in PixelXs \X PixelXs \X PixelRows : q[1] <= q[2]}}
  \cup {ObjP, ObjQ}

\* lists of boxes on the pixel grid, and lists of the two 100-pixel-high boxes
ObjectLists ==
  UNION {[1..n -> TrackedObjects \ {ObjP, ObjQ}] \cup [1..n -> {ObjP, ObjQ}] :
            n \in 0..MaxObj}

\* contents of a calibration file: 9 numbers, row-major
CalibrationFiles == {<<1, 0, 0, 0, 1, 0, 0, 0, 1>>, <<2, 0, 1, 0, 3, 0, 0, 1, 1>>}
CalibSettings == {"absent", "missing", "malformed", "valid"}

Abs(a) == IF a < 0 THEN -a ELSE a

RECURSIVE Gcd(_, _)
Gcd(a, b) == IF b = 0 THEN a ELSE Gcd(b, a % b)

\* the finite float n / d (d > 0), kept in lowest terms
Num(n, d) ==
  LET g == Gcd(Abs(n), d)
  IN  [kind |-> "num", n |-> n \div g, d |-> d \div g]
Inf == [kind |-> "inf", n |-> 0, d |-> 1]
NaN == [kind |-> "nan", n |-> 0, d |-> 1]
Zero == Num(0, 1)

\* a < b on floats (every comparison with nan is false)
Less(a, b) ==
  IF a.kind = "nan" \/ b.kind = "nan" THEN FALSE
  ELSE IF a.kind = "inf" THEN FALSE
  ELSE IF b.kind = "inf" THEN TRUE
  ELSE LET gn == Gcd(a.n, b.n)
           gd == Gcd(a.d, b.d)
       IN  IF gn = 0 THEN FALSE
           ELSE (a.n \div gn) * (b.d \div gd) < (b.n \div gn) * (a.d \div gd)

\* a == b on floats
Same(a, b) ==
  IF a.kind = "nan" \/ b.kind = "nan" THEN FALSE
  ELSE IF a.kind = "inf" \/ b.kind = "inf" THEN a.kind = b.kind
  ELSE a.n = b.n /\ a.d = b.d

\* np.array(self.h_inv, dtype="float").reshape((3, 3))
Reshape33(flat) == [r \in 1..3 |-> [c \in 1..3 |-> flat[3 * (r - 1) + c]]]

IdleDist ==
  /\ d_pc = "off"
  /\ dist_method = CENTER
  /\ calib_setting = "absent"
  /\ calib_file = <<>>
  /\ float_kind = "python"
  /\ calib_opened = FALSE
  /\ ctor_error = NoVal
  /\ h_inv = <<>>
  /\ nn_out = <<>>
  /\ world_points = <<>>
  /\ distances = <<>>
  /\ dist_error = NoVal

\* the configuration and environment a Distancing object is constructed in
InitDist ==
  /\ d_pc = "new"
  /\ dist_method \in DistMethods
  /\ calib_setting \in CalibSettings
  /\ calib_file \in CalibrationFiles
  /\ (calib_setting # "valid" \/ dist_method # CALIBRATED)
        => (calib_file = <<1, 0, 0, 0, 1, 0, 0, 0, 1>>)
  /\ float_kind \in {"python", "numpy"}
  /\ (dist_method = CALIBRATED) => (float_kind = "numpy")
  /\ calib_opened = FALSE
  /\ ctor_error = NoVal
  /\ h_inv = <<>>
  /\ nn_out = <<>>
  /\ world_points = <<>>
  /\ distances = <<>>
  /\ dist_error = NoVal

\* if self.dist_method == "CalibratedDistance":
NeedsCalibration_Always(method) == TRUE
NeedsCalibration(method) == method = CALIBRATED

\* Distancing.__init__, lines 30-45
ConstructDistancing ==
  /\ d_pc = "new"
  /\ IF NeedsCalibration(dist_method)
       THEN /\ calib_opened' = TRUE
            /\ IF calib_setting = "absent"
                 THEN /\ ctor_error' = "ValueError"
                      /\ d_pc' = "failed"
                      /\ UNCHANGED h_inv
               ELSE IF calib_setting = "missing"
                 THEN /\ ctor_error' = "FileNotFoundError"
                      /\ d_pc' = "failed"
                      /\ UNCHANGED h_inv
               ELSE IF calib_setting = "malformed"
                 THEN /\ ctor_error' = "ParseError"
                      /\ d_pc' = "failed"
                      /\ UNCHANGED h_inv
               ELSE /\ h_inv' = Reshape33(calib_file)
                    /\ d_pc' = "constructed"
                    /\ UNCHANGED ctor_error
       ELSE /\ d_pc' = "constructed"
            /\ UNCHANGED <<calib_opened, ctor_error, h_inv>>
  /\ UNCHANGED <<dist_method, calib_setting, calib_file, float_kind, nn_out,
                 world_points, distances, dist_error>>
  /\ UNCHANGED notDist

\* does 1 / h1 + 1 / h2 divide by zero
DividesByZero(first_point, second_point) ==
  first_point[3] = 0 \/ second_point[3] = 0

\* lx = dx * 170 * (1 / h1 + 1 / h2) / 2 as a fraction <<numerator, denominator>>
\* (dx2 is the displacement doubled or not, scale its unit: dx = dx2 / scale)
Displacement_NoHalving(dx2, scale, h1, h2) ==
  <<dx2 * PersonHeight * (h2 + h1), scale * h1 * h2>>
Displacement(dx2, scale, h1, h2) ==
  <<dx2 * PersonHeight * (h2 + h1), scale * h1 * h2 * 2>>

\* calculate_distance_of_two_points_of_boxes(first_point, second_point) on
\* numbers that do not raise: points are <<x, y, h>> with x, y in 1/scale pixels
PointDistance(first_point, second_point, scale) ==
  LET dx == second_point[1] - first_point[1]
      dy == second_point[2] - first_point[2]
      h1 == first_point[3]
      h2 == second_point[3]
  IN  IF DividesByZero(first_point, second_point)
        THEN \* 1 / 0 = inf; 0 * inf = nan; sqrt(inf) = inf; sqrt(nan) = nan
             IF dx = 0 \/ dy = 0 THEN NaN ELSE Inf
        ELSE LET lx == Displacement(dx, scale, h1, h2)
                 ly == Displacement(dy, scale, h1, h2)
                 g == Gcd(Gcd(Abs(lx[1]), Abs(ly[1])), lx[2])
                 nx == lx[1] \div g
                 ny == ly[1] \div g
                 den == lx[2] \div g
             IN  Num(nx * nx + ny * ny, den * den)

\* Python's min(l1, l2, l3, l4): keeps the first item unless a later one is <
PyMin_Max(ls) ==
  LET m2 == IF Less(ls[1], ls[2]) THEN ls[2] ELSE ls[1]
      m3 == IF Less(m2, ls[3]) THEN ls[3] ELSE m2
  IN  IF Less(m3, ls[4]) THEN ls[4] ELSE m3
PyMin(ls) ==
  LET m2 == IF Less(ls[2], ls[1]) THEN ls[2] ELSE ls[1]
      m3 == IF Less(ls[3], m2) THEN ls[3] ELSE m2
  IN  IF Less(ls[4], m3) THEN ls[4] ELSE m3

\* the four corner points of a box, each with the box's height
\*   lower_left [0],[1]; lower_right [2],[1]; upper_left [0],[3]; upper_right [2],[3]
Corners(obj) ==
  << <<obj.bboxReal[1], obj.bboxReal[2], obj.height>>,
     <<obj.bboxReal[3], obj.bboxReal[2], obj.height>>,
     <<obj.bboxReal[1], obj.bboxReal[4], obj.height>>,
     <<obj.bboxReal[3], obj.bboxReal[4], obj.height>> >>

\* center_of_..._box = [centroidReal[0], centroidReal[1], centroidReal[3]]
CenterPoint(obj) == <<obj.centroidReal2[1], obj.centroidReal2[2], obj.height>>

\* the entry l for i # j, lines 406-441
PairDistance(method, oi, oj) ==
  IF method = FOURCORNER
    THEN PyMin([k \in 1..4 |-> PointDistance(Corners(oi)[k], Corners(oj)[k], 1)])
    ELSE PointDistance(CenterPoint(oi), CenterPoint(oj), 2)

\* does computing the entries of objs raise ZeroDivisionError (Python floats)
RaisesZeroDivision(objs) ==
  \E i, j \in 1..Len(objs) : i # j /\ (objs[i].height = 0 \/ objs[j].height = 0)

\* int(v) for v = a / b, b > 0: truncation toward zero
IntTrunc(a, b) == IF a >= 0 THEN a \div b ELSE -((-a) \div b)

\* floor_point = [int((bboxReal[0] + bboxReal[2]) / 2), bboxReal[3], 1]
FloorPoint(obj) ==
  <<IntTrunc(obj.bboxReal[1] + obj.bboxReal[3], 2), obj.bboxReal[4], 1>>

\* np.matmul(h, point); the homogeneous vector <<X, Y, W>> stands for the
\* normalized point (X / W, Y / W) of floor_world_point[:-1] / floor_world_point[-1]
MatMul(h, pt) == [r \in 1..3 |-> h[r][1] * pt[1] + h[r][2] * pt[2] + h[r][3] * pt[3]]

transform_to_world_coordinate(h, obj) == MatMul(h, FloorPoint(obj))

\* cdist: Euclidean distance of two world points (squared)
WorldDistance(p, q) ==
  LET ax == p[1] * q[3] - q[1] * p[3]
      ay == p[2] * q[3] - q[2] * p[3]
      g == Gcd(Gcd(Abs(ax), Abs(ay)), p[3] * q[3])
      nx == ax \div g
      ny == ay \div g
      den == (p[3] * q[3]) \div g
  IN  Num(nx * nx + ny * ny, den * den)

\* the matrix of the else branch, lines 399-444
PairMatrix(method, objs) ==
  [i \in 1..Len(objs) |->
     [j \in 1..Len(objs) |->
        IF i = j THEN Zero ELSE PairDistance(method, objs[i], objs[j])]]

\* what calculate_box_distances(nn_out) computes: the exception it raises,
\* its world_coordinate_points and the matrix it returns
BoxDistances(method, fk, h, objs) ==
  IF method = CALIBRATED
    THEN LET wp == [i \in 1..Len(objs) |->
                      transform_to_world_coordinate(h, objs[i])]
         IN  [error |-> NoVal,
              world |-> wp,
              matrix |-> [i \in 1..Len(objs) |->
                            [j \in 1..Len(objs) |-> WorldDistance(wp[i], wp[j])]]]
    ELSE IF fk = "python" /\ RaisesZeroDivision(objs)
           THEN [error |-> "ZeroDivisionError", world |-> <<>>, matrix |-> <<>>]
           ELSE [error |-> NoVal, world |-> <<>>,
                 matrix |-> PairMatrix(method, objs)]

\* calculate_box_distances(nn_out)
calculate_box_distances(objs) ==
  /\ d_pc = "constructed"
  /\ nn_out' = objs
  /\ LET res == BoxDistances(dist_method, float_kind, h_inv, objs)
     IN  /\ dist_error' = res.error
         /\ world_points' = res.world
         /\ distances' = res.matrix
         /\ d_pc' = IF res.error = NoVal THEN "computed" ELSE "raised"
  /\ UNCHANGED <<dist_method, calib_setting, calib_file, float_kind,
                 calib_opened, ctor_error, h_inv>>
  /\ UNCHANGED notDist

NextDist ==
  \/ ConstructDistancing
  \/ \E objs \in ObjectLists : calculate_box_distances(objs)

(***************************************************************************)
(* One loop iteration on a valid frame, stage by stage: __process          *)
(* (detector inference), calculate_distancing (ignore_large_boxes,         *)
(* non_max_suppression_fast, tracker.update, re-indexing of the ids,       *)
(* calculate_box_distances), out.write, out_birdseye.write, logger.update  *)
(*                                                                         *)
(* An id "a-b" is the record of its part before the first "-" and the      *)
(* numbers after it.  The drawing calls between the stages only change the *)
(* image and are left out.                                                 *)
(***************************************************************************)
\* [w, h] = self.resolution
Resolution == <<2, 2>>

\* the boxes a detector returns, as [y0, x0, y1, x1] in normalized coordinates:
\* two quarter-frame boxes side by side, one below, a half-frame box (large)
\* and a box of zero height
DetectorBoxes ==
  {<<0, 0, Unit \div 2, Unit \div 2>>,
   <<0, Unit \div 2, Unit \div 2, Unit>>,
   <<Unit \div 2, 0, Unit, Unit \div 2>>,
   <<0, 0, Unit, Unit>>,
   <<Unit \div 2, 0, Unit \div 2, Unit \div 2>>}

DetectorOutputs == UNION {[1..n -> DetectorBoxes] : n \in 0..MaxIn}

Id(prefix, rest) == [prefix |-> prefix, rest |-> rest]

\* the loop body of __process on one detector object (lines 61-70)
ProcessObject(box, id) ==
  LET x0 == box[2]
      y0 == box[1]
      x1 == box[4]
      y1 == box[3]
      w == Resolution[1]
      h == Resolution[2]
  IN  [id |-> id,
       centroid |-> <<(x0 + x1) \div 2, (y0 + y1) \div 2, x1 - x0, y1 - y0>>,
       bbox |-> <<x0, y0, x1, y1>>,
       centroidReal2 |-> <<((x0 + x1) * w) \div Unit, ((y0 + y1) * h) \div Unit>>,
       height |-> ((y1 - y0) * h) \div Unit,
       bboxReal |-> <<(x0 * w) \div Unit, (y0 * h) \div Unit,
                      (x1 * w) \div Unit, (y1 * h) \div Unit>>]

\* an object the tracker still holds from an earlier frame
StaleObject == ProcessObject(<<0, 0, Unit \div 2, Unit \div 2>>, Id("1", <<7>>))

Reverse(sq) == [k \in 1..Len(sq) |-> sq[Len(sq) + 1 - k]]

\* self.tracker.update(new_objects_list): the values of the returned mapping
\* in its iteration order; the tracker may keep an object of an earlier frame
TrackerResults(objs) ==
  {objs, Reverse(objs),
   <<StaleObject>> \o objs, objs \o <<StaleObject>>,
   <<StaleObject>> \o Reverse(objs)}

\* item["id"] = item["id"].split("-")[0] + "-" + str(i), i counted from 0
NewId_KeepIndex(id, i) == Id(id.prefix, id.rest)
NewId(id, i) == Id(id.prefix, <<i>>)

\* new_objects_list = [tracked_boxes[i] for i in tracked_boxes.keys()]
\* for i, item in enumerate(new_objects_list): item["id"] = ...
Reindexed(tracked) ==
  [k \in 1..Len(tracked) |->
     [tracked[k] EXCEPT !.id = NewId(tracked[k].id, k - 1)]]

StageOrder ==
  <<"inference", "ignore_large_boxes", "nms", "tracker", "reindex",
    "distances", "write_out", "write_birdseye", "logger_update">>

IdleFrame ==
  /\ f_pc = "off"
  /\ f_thr = 3
  /\ frame_count = 0
  /\ f_objs = <<>>
  /\ f_tracked = <<>>
  /\ f_dist = <<>>
  /\ f_trace = <<>>
  /\ f_nout = 0
  /\ f_nbird = 0
  /\ f_nlog = 0
  /\ f_logged = <<>>

\* a Distancing object after __init__ returned
ConstructedDist ==
  /\ d_pc = "constructed"
  /\ dist_method \in DistMethods
  /\ calib_setting = IF dist_method = CALIBRATED THEN "valid" ELSE "absent"
  /\ calib_file = <<1, 0, 0, 0, 1, 0, 0, 0, 1>>
  /\ float_kind \in {"python", "numpy"}
  /\ (dist_method = CALIBRATED) => (float_kind = "numpy")
  /\ calib_opened = (dist_method = CALIBRATED)
  /\ ctor_error = NoVal
  /\ h_inv = IF dist_method = CALIBRATED THEN Reshape33(calib_file) ELSE <<>>
  /\ nn_out = <<>>
  /\ world_points = <<>>
  /\ distances = <<>>
  /\ dist_error = NoVal

\* the top of the loop body with frame_num = 0
InitFrame ==
  /\ f_pc = "inference"
  /\ f_thr \in Thresholds
  /\ frame_count = 0
  /\ f_objs = <<>>
  /\ f_tracked = <<>>
  /\ f_dist = <<>>
  /\ f_trace = <<>>
  /\ f_nout = 0
  /\ f_nbird = 0
  /\ f_nlog = 0
  /\ f_logged = <<>>

\* tmp_objects_list = self.detector.inference(...) and the loop of __process
\* over it; the detector names its k-th object "<class>-<k>"
FrameInference(boxes) ==
  /\ f_pc = "inference"
  /\ frame_count < MaxValid
  /\ f_objs' = [k \in 1..Len(boxes) |->
                  ProcessObject(boxes[k], Id("1", <<k - 1>>))]
  /\ f_tracked' = <<>>
  /\ f_dist' = <<>>
  /\ f_logged' = <<>>
  /\ f_trace' = <<"inference">>
  /\ f_pc' = "ignore_large_boxes"
  /\ UNCHANGED <<f_thr, frame_count, f_nout, f_nbird, f_nlog>>
  /\ UNCHANGED notFrame

\* new_objects_list = self.ignore_large_boxes(objects_list)
FrameIgnoreLargeBoxes ==
  /\ f_pc = "ignore_large_boxes"
  /\ f_objs' = ignore_large_boxes(f_objs)
  /\ f_trace' = Append(f_trace, "ignore_large_boxes")
  /\ f_pc' = "nms"
  /\ UNCHANGED <<f_thr, frame_count, f_tracked, f_dist, f_nout, f_nbird,
                 f_nlog, f_logged>>
  /\ UNCHANGED notFrame

\* new_objects_list = self.non_max_suppression_fast(new_objects_list, thr)
FrameNMS(order) ==
  /\ f_pc = "nms"
  /\ order \in Orders(f_objs)
  /\ f_objs' = non_max_suppression_fast(f_objs, f_thr, order)
  /\ f_trace' = Append(f_trace, "nms")
  /\ f_pc' = "tracker"
  /\ UNCHANGED <<f_thr, frame_count, f_tracked, f_dist, f_nout, f_nbird,
                 f_nlog, f_logged>>
  /\ UNCHANGED notFrame

\* tracked_boxes = self.tracker.update(new_objects_list)
FrameTrackerUpdate(tracked) ==
  /\ f_pc = "tracker"
  /\ tracked \in TrackerResults(f_objs)
  /\ f_tracked' = tracked
  /\ f_trace' = Append(f_trace, "tracker")
  /\ f_pc' = "reindex"
  /\ UNCHANGED <<f_thr, frame_count, f_objs, f_dist, f_nout, f_nbird,
                 f_nlog, f_logged>>
  /\ UNCHANGED notFrame

\* lines 261-263: the list of the mapping's values, with new ids
FrameReindex ==
  /\ f_pc = "reindex"
  /\ f_objs' = Reindexed(f_tracked)
  /\ f_trace' = Append(f_trace, "reindex")
  /\ f_pc' = "distances"
  /\ UNCHANGED <<f_thr, frame_count, f_tracked, f_dist, f_nout, f_nbird,
                 f_nlog, f_logged>>
  /\ UNCHANGED notFrame

\* the iteration with self.logger.update placed ahead of the two writes
FrameDistances_LogFirst ==
  /\ f_pc = "distances"
  /\ LET res == BoxDistances(dist_method, float_kind, h_inv, f_objs)
     IN  IF res.error = NoVal
           THEN /\ f_dist' = res.matrix
                /\ f_trace' = Append(f_trace, "distances")
                /\ f_pc' = "logger_update"
           ELSE /\ f_pc' = "raised"
                /\ UNCHANGED <<f_dist, f_trace>>
  /\ UNCHANGED <<f_thr, frame_count, f_objs, f_tracked, f_nout, f_nbird,
                 f_nlog, f_logged>>
  /\ UNCHANGED notFrame

\* distances = self.calculate_box_distances(new_objects_list); an exception
\* leaves calculate_distancing, __process and process_video
FrameDistances ==
  /\ f_pc = "distances"
  /\ LET res == BoxDistances(dist_method, float_kind, h_inv, f_objs)
     IN  IF res.error = NoVal
           THEN /\ f_dist' = res.matrix
                /\ f_trace' = Append(f_trace, "distances")
                /\ f_pc' = "write_out"
           ELSE /\ f_pc' = "raised"
                /\ UNCHANGED <<f_dist, f_trace>>
  /\ UNCHANGED <<f_thr, frame_count, f_objs, f_tracked, f_nout, f_nbird,
                 f_nlog, f_logged>>
  /\ UNCHANGED notFrame

\* out.write(cv_image)
FrameWriteOut ==
  /\ f_pc = "write_out"
  /\ f_nout' = f_nout + 1
  /\ f_trace' = Append(f_trace, "write_out")
  /\ f_pc' = "write_birdseye"
  /\ UNCHANGED <<f_thr, frame_count, f_objs, f_tracked, f_dist, f_nbird,
                 f_nlog, f_logged>>
  /\ UNCHANGED notFrame

\* out_birdseye.write(birds_eye_window); frame_num += 1
FrameWriteBirdseye ==
  /\ f_pc = "write_birdseye"
  /\ f_nbird' = f_nbird + 1
  /\ frame_count' = frame_count + 1
  /\ f_trace' = Append(f_trace, "write_birdseye")
  /\ f_pc' = "logger_update"
  /\ UNCHANGED <<f_thr, f_objs, f_tracked, f_dist, f_nout, f_nlog, f_logged>>
  /\ UNCHANGED notFrame

\* self.logger.update(objects, distancings), then the next iteration
FrameLoggerUpdate ==
  /\ f_pc = "logger_update"
  /\ f_logged' = <<[objects |-> f_objs, distancings |-> f_dist]>>
  /\ f_nlog' = f_nlog + 1
  /\ f_trace' = Append(f_trace, "logger_update")
  /\ f_pc' = "inference"
  /\ UNCHANGED <<f_thr, frame_count, f_objs, f_tracked, f_dist, f_nout,
                 f_nbird>>
  /\ UNCHANGED notFrame

NextFrame ==
  \/ \E boxes \in DetectorOutputs : FrameInference(boxes)
  \/ FrameIgnoreLargeBoxes
  \/ \E n \in 0..MaxIn : \E order \in IndexOrders(n) : FrameNMS(order)
  \/ \E tracked \in TrackerResults(f_objs) : FrameTrackerUpdate(tracked)
  \/ FrameReindex
  \/ FrameDistances
  \/ FrameWriteOut
  \/ FrameWriteBirdseye
  \/ FrameLoggerUpdate

(***************************************************************************)
(* Specifications                                                          *)
(***************************************************************************)
Init == InitApi /\ InitVideo /\ IdlePost /\ IdleDist /\ IdleFrame

NextApi == ApiStep
NextVideo == VideoStep

\* The control channel alone
SpecApi == Init /\ [][NextApi]_vars

\* The frame loop alone
SpecVideo == Init /\ [][NextVideo]_vars

\* The frame loop when the thread running process_video keeps being scheduled
FairVideo == SpecVideo /\ WF_vars(ProcessVideoStep)

\* The detection post-processor applied to every bounded list of detections
InitPostSpec ==
  InitApi /\ InitVideo /\ device = "Dummy" /\ InitPost /\ IdleDist
  /\ IdleFrame
SpecPost == InitPostSpec /\ [][NextPost]_vars

\* Construction of the distance estimator and calculate_box_distances on every
\* bounded list of tracked objects
InitDistSpec ==
  InitApi /\ InitVideo /\ device = "Dummy" /\ IdlePost /\ InitDist
  /\ IdleFrame
SpecDist == InitDistSpec /\ [][NextDist]_vars

\* The stages of the loop iterations on valid frames, for a constructed
\* Distancing object of every distance method
InitFrameSpec ==
  InitApi /\ InitVideo /\ device = "Dummy" /\ IdlePost /\ ConstructedDist
  /\ InitFrame
SpecFrame == InitFrameSpec /\ [][NextFrame]_vars

\* The control-plane process from the entry of _setup_queues on, with the
\* processing side coming up at any moment
InitSetupSpec ==
  InitRequests /\ SetupStart /\ InitVideo /\ device = "Dummy" /\ IdlePost
  /\ IdleDist /\ IdleFrame
NextSetup == SetupStep \/ EndpointStarts \/ ApiStep
SpecSetup == InitSetupSpec /\ [][NextSetup]_vars

\* ... when the control-plane process keeps running
FairSetup == SpecSetup /\ WF_vars(SetupStep)
(***************************************************************************)
(* Properties of the control channel (SpecApi)                             *)
(***************************************************************************)
IsRestart(r) == kind[r] \in RestartKinds

RECURSIVE SumLen(_, _)
SumLen(f, n) == IF n = 0 THEN 0 ELSE Len(f[n]) + SumLen(f, n - 1)

\* commands put on the command queue whose result nobody has taken yet
Outstanding == SumLen(sent, NumReq) - SumLen(got, NumReq)

\* C1: restart_processor returns true exactly when the STOP_PROCESS_VIDEO
\* result is true and the following PROCESS_VIDEO_CFG result is true; when the
\* stop result is false it returns false.
C1_RestartTrueIffBothTrue ==
  \A r \in Reqs :
    (IsRestart(r) /\ pc[r] = "done") =>
      (ret[r] = {stopped[r] = {TRUE} /\ started[r] = {TRUE}})

\* C2: a restart has put PROCESS_VIDEO_CFG only if it had already taken the
\* stop result and that result was true; a restart whose stop result is false
\* has put nothing but its STOP_PROCESS_VIDEO.
C2_StartOnlyAfterStopTrue ==
  \A r \in Reqs :
    IsRestart(r) =>
      /\ (\E i \in 1..Len(sent[r]) : sent[r][i] = PROCESS_VIDEO_CFG) =>
            /\ Len(got[r]) >= 1
            /\ got[r][1].val = TRUE
            /\ sent[r][1] = STOP_PROCESS_VIDEO
      /\ (stopped[r] = {FALSE}) => (sent[r] = <<STOP_PROCESS_VIDEO>>)

C2_Witness ==
  \E r1, r2 \in Reqs :
    /\ IsRestart(r1) /\ pc[r1] = "done" /\ stopped[r1] = {FALSE}
    /\ IsRestart(r2) /\ stopped[r2] = {TRUE}
    /\ sent[r2] = <<STOP_PROCESS_VIDEO, PROCESS_VIDEO_CFG>>

\* C3: at most one command is outstanding at any time, whatever requests
\* (process-video-cfg, stop-process-video, restarts) arrive and in whatever
\* order they are served.
C3_AtMostOneOutstanding == Outstanding <= 1

C3_Witness ==
  /\ Outstanding = 1
  /\ \E r1, r2 \in Reqs :
       /\ r1 # r2
       /\ pc[r1] = "done"
       /\ pc[r2] \in {"get", "r_get_stop", "r_get_start"}

\* C27: whatever mix of requests is in flight, every result a request takes
\* off the result queue was produced for a command that this request itself
\* put, in the order it put them
C27_OwnResultReturned ==
  \A r \in Reqs :
    /\ Len(got[r]) <= Len(sent[r])
    /\ \A i \in 1..Len(got[r]) :
         /\ got[r][i].for = r
         /\ got[r][i].cmd = sent[r][i]
    /\ (pc[r] = "done" /\ ~IsRestart(r)) => (ret[r] = {got[r][1].val})

\* three requests were served, a restart that took two results among them
C27_Witness ==
  /\ \A r \in Reqs : pc[r] = "done"
  /\ \E r \in Reqs : IsRestart(r) /\ Len(got[r]) = 2
  /\ \E r \in Reqs : ~IsRestart(r) /\ ret[r] = {FALSE}
  /\ \E r \in Reqs : ~IsRestart(r) /\ ret[r] = {TRUE}

(***************************************************************************)
(* Properties of the frame loop (SpecVideo, FairVideo)                     *)
(***************************************************************************)
\* C4: once stop_process_video() has been called during a process_video call,
\* the loop starts no further iteration (it only finishes the one in progress).
C4_NoIterationAfterStop == stop_in_call => ~iter_after_stop

\* C5: when the loop has exited, the input handle and both sinks are released,
\* the detector is released and the running flag is false; every call that is
\* inside the loop runs on a detector constructed by that very call.
C5_LoopExitReleasesAll ==
  /\ (pv_pc = "idle" /\ pv_exit = "loop_exit") =>
        /\ input_cap = "released"
        /\ out = "released"
        /\ out_birdseye = "released"
        /\ detector = Deleted
        /\ ~running_video
  /\ (pv_pc \in LoopPcs) => (detector = calls)

C5_Witness ==
  /\ prev_exit = "loop_exit"
  /\ calls >= 2
  /\ pv_pc = "process"
  /\ running_video

\* C6: when opening an output sink fails, the call ends with the running flag
\* false and no input or output handle left open.
C6_SinkFailureLeavesIdle ==
  (pv_pc = "idle" /\ pv_exit = "sink_open_failed") =>
     /\ ~running_video
     /\ input_cap # "open"
     /\ out # "open"
     /\ out_birdseye # "open"

\* C7: however process_video leaves the loop after the sinks were opened, an
\* error raised while handling a frame included, both sinks and the input
\* handle have been released when the call ends.
C7_SinksReleasedOnEveryExit ==
  (pv_pc = "idle" /\ pv_exit \in {"loop_exit", "raised_in_loop"}) =>
     /\ input_cap = "released"
     /\ out = "released"
     /\ out_birdseye = "released"

\* C8: when the source cannot be opened, the call has returned without setting
\* the running flag, without creating a sink and without reading a frame.
C8_UnopenableSourceReturns ==
  (input_cap = "unopened") =>
     /\ pv_pc = "idle"
     /\ pv_exit = "open_failed"
     /\ ~flag_set
     /\ out = NoVal
     /\ out_birdseye = NoVal
     /\ ~has_read
     /\ n_out = 0
     /\ n_bird = 0

C8_Witness ==
  /\ prev_exit = "open_failed"
  /\ pv_pc = "process"
  /\ running_video
  /\ cv_image = "valid"

\* C9: an empty frame is skipped: the iteration writes to no sink, leaves the
\* frame counter and the logger alone and goes back to the loop condition,
\* which moves on to the next read while the flag is true and the source open.
C9_EmptyFrameSkipped ==
  [][ /\ (pv_pc = "skip") =>
           /\ cv_image = "empty"
           /\ UNCHANGED <<n_out, n_bird, frame_num, n_log>>
           /\ pv_pc' \in {"skip", "loop"}
      /\ (pv_pc = "loop" /\ running_video /\ input_cap = "open"
            /\ pv_pc' # pv_pc) => (pv_pc' = "read")
    ]_vars

C9_Witness ==
  /\ pv_pc = "read"
  /\ cv_image = "empty"
  /\ running_video
  /\ input_cap = "open"

\* C10: once the source is exhausted, process_video eventually leaves the loop
\* and the call ends, also when stop_process_video() is never called.
C10_ExhaustedSourceTerminates ==
  [](((pv_pc \in LoopPcs) /\ frames_left = 0) => <>(pv_pc = "idle"))
(***************************************************************************)
(* Properties of the detection post-processor (SpecPost)                   *)
(***************************************************************************)
Elements(sq) == {sq[k] : k \in 1..Len(sq)}

NotOversized(obj) == 4 * obj.centroid[3] * obj.centroid[4] <= Unit * Unit

\* C11: ignore_large_boxes returns exactly the detections whose area w*h is
\* not greater than 0.25 (area exactly 0.25 is kept), unchanged and in their
\* original order; the empty list yields the empty list.
C11_IgnoreLargeBoxesFilter ==
  (pp_pc \in {"filtered", "nms", "nms_again"}) =>
     /\ pp_filtered = SelectSeq(pp_in, NotOversized)
     /\ (pp_in = <<>>) => (pp_filtered = <<>>)

C11_Witness ==
  /\ pp_pc = "filtered"
  /\ \E i, j \in 1..Len(pp_in) :
       /\ 4 * pp_in[i].centroid[3] * pp_in[i].centroid[4] = Unit * Unit
       /\ 4 * pp_in[j].centroid[3] * pp_in[j].centroid[4] > Unit * Unit
       /\ i < j
       /\ pp_in[i] \in Elements(pp_filtered)
       /\ pp_in[j] \notin Elements(pp_filtered)

\* C12: of two detections where the one with the smaller cy + h/2 overlaps the
\* other by more than overlapThresh, NMS keeps the one with the larger
\* cy + h/2 and drops the other.
C12_BottomMostKept ==
  (pp_pc \in {"nms", "nms_again"} /\ Len(pp_in) = 2) =>
     \A hi, lo \in 1..2 :
        (/\ SortKey(pp_in[hi]) > SortKey(pp_in[lo])
         /\ Overlaps(pp_in[hi], pp_in[lo], pp_thr))
        => (pp_nms = <<pp_in[hi]>>)

C12_Witness ==
  /\ pp_pc = "nms"
  /\ pp_in = <<BoxA, BoxB>>
  /\ pp_thr = 3
  /\ pp_nms = <<BoxB>>

\* C13: running NMS on its own output with the same threshold yields the same
\* set of detections.
C13_NMSIdempotent ==
  (pp_pc = "nms_again") => (Elements(pp_nms2) = Elements(pp_nms))

\* how a finished restart went, from the results it took off the result queue
RestartOutcome(r) ==
  IF stopped[r] # {TRUE} THEN "stop_failed"
  ELSE IF started[r] # {TRUE} THEN "start_failed"
  ELSE "success"

CountOf(sq, c) == Cardinality({i \in 1..Len(sq) : sq[i] = c})

\* C20: a restart that failed at the stop step or at the start step answers
\* its caller with a failure, the answers for "stop failed", "start after stop
\* failed" and success differ from each other, and one restart puts at most
\* one STOP_PROCESS_VIDEO and at most one PROCESS_VIDEO_CFG on the command queue
C20_PartialFailureSurfaced ==
  \A r \in Reqs :
    IsRestart(r) =>
      /\ CountOf(sent[r], STOP_PROCESS_VIDEO) <= 1
      /\ CountOf(sent[r], PROCESS_VIDEO_CFG) <= 1
      /\ (pc[r] = "done") =>
           /\ (RestartOutcome(r) # "success") => (response[r] # 200)
           /\ \A q \in Reqs :
                (IsRestart(q) /\ pc[q] = "done"
                   /\ RestartOutcome(q) # RestartOutcome(r))
                  => (response[q] # response[r])

\* C19: with a Device other than Jetson, EdgeTPU, Dummy and x86, process_video
\* fails with an error before the source is opened: it never sets the running
\* flag, never opens the source or a sink and never reads or processes a frame
C19_UnsupportedDeviceFailsEarly ==
  device \notin Supported =>
    /\ pv_pc \in {"idle", "detector"}
    /\ detector = NoDetector
    /\ input_cap = NoVal /\ out = NoVal /\ out_birdseye = NoVal
    /\ ~running_video /\ ~flag_set
    /\ ~has_read /\ frame_num = 0 /\ n_out = 0 /\ n_bird = 0 /\ n_log = 0
    /\ (pv_pc = "idle" /\ calls > 0) => (pv_exit = "unsupported_device")

\* a process_video call on an unsupported device that has failed
C19_Witness ==
  /\ device \notin Supported
  /\ calls > 0
  /\ pv_pc = "idle"
  /\ pv_exit = "unsupported_device"

\* a process_video call made after stop_process_video() ran while idle
CallAfterIdleStop ==
  idle_stop_at # NoIdleStop /\ calls > idle_stop_at /\ pv_pc # "idle"

\* C29: stop_process_video() called while no process_video call is running
\* leaves the running flag false and everything else as it was; further such
\* calls change nothing more; and a later process_video call still has the
\* running flag true from line 152 on (until it is stopped or exits)
C29_IdleStopHasNoLastingEffect ==
  /\ []((CallAfterIdleStop /\ flag_set /\ ~stop_in_call) => running_video)
  /\ [][(pv_pc = "idle" /\ idle_stop_at' # idle_stop_at)
          => /\ running_video' = FALSE
             /\ UNCHANGED <<device, detector, pv_pc, pv_exit, prev_exit, calls,
                            input_cap, frames_left, out, out_birdseye, cv_image,
                            frame_num, n_out, n_bird, n_log, flag_set, has_read,
                            stop_in_call, iter_after_stop>>]_vars
  /\ [][(pv_pc = "idle" /\ idle_stop_at = calls /\ pv_pc' = "idle")
          => UNCHANGED vidVars]_vars

\* a call made after an idle stop is running and has processed a frame
C29_Witness ==
  /\ CallAfterIdleStop
  /\ running_video
  /\ pv_pc \in LoopPcs
  /\ frame_num > 0
  /\ n_out > 0

(***************************************************************************)
(* Properties of the distance estimator                                    *)
(***************************************************************************)
Computed(method) == d_pc = "computed" /\ dist_method = method

\* C14: for each of the three methods and every list of N >= 0 tracked
\* objects, calculate_box_distances returns (without raising) an N x N matrix
\* with a zero diagonal that equals its transpose
C14_SymmetricZeroDiagonal ==
  d_pc \in {"computed", "raised"} =>
    /\ d_pc = "computed"
    /\ Len(distances) = Len(nn_out)
    /\ \A i \in 1..Len(nn_out) :
         /\ Len(distances[i]) = Len(nn_out)
         /\ Same(distances[i][i], Zero)
         /\ \A j \in 1..Len(nn_out) : Same(distances[i][j], distances[j][i])

\* the norm of (dx * 170 * (1/h1 + 1/h2) / 2, dy * 170 * (1/h1 + 1/h2) / 2),
\* squared: (170 * (h1 + h2) / (2 * h1 * h2)) ^ 2 * (dx ^ 2 + dy ^ 2), where
\* dx, dy are the differences of the box centers and h1, h2 the box heights
CenterNormSquared(oi, oj) ==
  LET h1 == oi.bboxReal[4] - oi.bboxReal[2]
      h2 == oj.bboxReal[4] - oj.bboxReal[2]
      dx2 == (oj.bboxReal[1] + oj.bboxReal[3]) - (oi.bboxReal[1] + oi.bboxReal[3])
      dy2 == (oj.bboxReal[2] + oj.bboxReal[4]) - (oi.bboxReal[2] + oi.bboxReal[4])
      f == Num(170 * (h1 + h2), 2 * h1 * h2)
      v == Num(dx2 * dx2 + dy2 * dy2, 4)
  IN  Num(f.n * f.n * v.n, f.d * f.d * v.d)

\* C15: with CenterPointsDistance the entry for a pair of boxes with heights
\* h1, h2 and center displacement (dx, dy) is the Euclidean norm of
\* (dx * 170 * (1/h1 + 1/h2) / 2, dy * 170 * (1/h1 + 1/h2) / 2)
C15_CenterPointsFormula ==
  Computed(CENTER) =>
    \A i, j \in 1..Len(nn_out) :
      (i # j /\ nn_out[i].height > 0 /\ nn_out[j].height > 0)
        => distances[i][j] = CenterNormSquared(nn_out[i], nn_out[j])

\* two boxes of height 100 centered at (0, 0) and (100, 0) are 170 cm apart
C15_Witness ==
  /\ Computed(CENTER)
  /\ nn_out = <<ObjP, ObjQ>>
  /\ distances[1][2] = Num(170 * 170, 1)

\* the four same-corner distances of two boxes
CornerDistances(oi, oj) ==
  LET hi == oi.bboxReal[4] - oi.bboxReal[2]
      hj == oj.bboxReal[4] - oj.bboxReal[2]
      c(o, a, b, h) == <<o.bboxReal[a], o.bboxReal[b], h>>
  IN  <<PointDistance(c(oi, 1, 2, hi), c(oj, 1, 2, hj), 1),
        PointDistance(c(oi, 3, 2, hi), c(oj, 3, 2, hj), 1),
        PointDistance(c(oi, 1, 4, hi), c(oj, 1, 4, hj), 1),
        PointDistance(c(oi, 3, 4, hi), c(oj, 3, 4, hj), 1)>>

\* C16: with FourCornerPointsDistance the entry for a pair equals the minimum
\* of the four same-corner distances: it is one of them and none is smaller
C16_FourCornerIsMinimum ==
  Computed(FOURCORNER) =>
    \A i, j \in 1..Len(nn_out) :
      i # j =>
        LET ls == CornerDistances(nn_out[i], nn_out[j])
        IN  /\ \E k \in 1..4 : distances[i][j] = ls[k]
            /\ \A k \in 1..4 : ~Less(ls[k], distances[i][j])

\* a pair whose corner distances differ, the entry being below one of them
C16_Witness ==
  /\ Computed(FOURCORNER)
  /\ \E i, j \in 1..Len(nn_out) :
       /\ i # j
       /\ \E k \in 1..4 :
            Less(distances[i][j], CornerDistances(nn_out[i], nn_out[j])[k])

\* the exact bottom-center ((x0 + x1) / 2, y1, 1) as the homogeneous
\* vector (x0 + x1, 2 * y1, 2)
BottomCenter(obj) ==
  <<obj.bboxReal[1] + obj.bboxReal[3], 2 * obj.bboxReal[4], 2>>

\* two homogeneous vectors that normalize to the same point
SamePoint(p, q) == p[1] * q[3] = q[1] * p[3] /\ p[2] * q[3] = q[2] * p[3]

\* C17: with CalibratedDistance every box is projected through the inverse
\* homography at exactly its bottom-center ((x0 + x1) / 2, y1, 1), also when
\* x0 + x1 is odd, and each entry is the Euclidean distance of the projections
C17_ExactBottomCenterProjected ==
  Computed(CALIBRATED) =>
    \A i \in 1..Len(nn_out) :
      /\ SamePoint(world_points[i], MatMul(h_inv, BottomCenter(nn_out[i])))
      /\ \A j \in 1..Len(nn_out) :
           distances[i][j] =
             WorldDistance(MatMul(h_inv, BottomCenter(nn_out[i])),
                           MatMul(h_inv, BottomCenter(nn_out[j])))

\* C18: constructing the pipeline with CalibratedDistance fails with a
\* ValueError when the CalibrationFile setting is absent and with a
\* FileNotFoundError when the named file does not exist, leaving no instance
\* to compute with; the other methods never look the calibration file up
C18_CalibrationOnlyWhenCalibrated ==
  d_pc \notin {"off", "new"} =>
    /\ (dist_method = CALIBRATED /\ calib_setting = "absent")
          => (d_pc = "failed" /\ ctor_error = "ValueError")
    /\ (dist_method = CALIBRATED /\ calib_setting = "missing")
          => (d_pc = "failed" /\ ctor_error = "FileNotFoundError")
    /\ (dist_method # CALIBRATED)
          => (d_pc # "failed" /\ ctor_error = NoVal /\ ~calib_opened
              /\ h_inv = <<>>)
    /\ (d_pc = "failed") => (distances = <<>> /\ nn_out = <<>>)

\* a construction with CalibratedDistance and a missing calibration file
C18_Witness ==
  /\ dist_method = CALIBRATED
  /\ calib_setting = "missing"
  /\ d_pc = "failed"
  /\ ctor_error = "FileNotFoundError"
  /\ calib_opened

\* C28: for every list of boxes with x0 <= x1 and y0 <= y1 (zero-height
\* boxes included) calculate_box_distances with CenterPointsDistance or
\* FourCornerPointsDistance raises no error and returns only finite,
\* non-negative entries
C28_FiniteNonNegativeEntries ==
  (d_pc \in {"computed", "raised"} /\ dist_method \in {CENTER, FOURCORNER}) =>
    /\ dist_error = NoVal
    /\ \A i, j \in 1..Len(distances) :
         distances[i][j].kind = "num" /\ distances[i][j].n >= 0

(***************************************************************************)
(* Properties of one loop iteration (SpecFrame)                            *)
(***************************************************************************)
\* calculate_distancing has returned in this iteration
DistancingReturned == f_pc \in {"write_out", "write_birdseye", "logger_update"}

\* the entry computed for the pair (a, b) alone
EntryOf(a, b) ==
  BoxDistances(dist_method, float_kind, h_inv, <<a, b>>).matrix[1][2]

\* C21: after calculate_distancing the returned objects are the values of the
\* tracker's mapping in its iteration order, the k-th one (from 0) carries the
\* id "<prefix>-<k>", and the returned matrix has N rows and N columns whose
\* entry (i, j) belongs to the i-th and j-th returned objects
C21_ContiguousIdsInTrackerOrder ==
  DistancingReturned =>
    /\ Len(f_objs) = Len(f_tracked)
    /\ Len(f_dist) = Len(f_tracked)
    /\ \A k \in 1..Len(f_tracked) :
         /\ f_objs[k].id = Id(f_tracked[k].id.prefix, <<k - 1>>)
         /\ f_objs[k].bbox = f_tracked[k].bbox
         /\ Len(f_dist[k]) = Len(f_tracked)
         /\ \A j \in 1..Len(f_tracked) :
              j # k => f_dist[k][j] = EntryOf(f_tracked[k], f_tracked[j])

\* a frame whose tracker mapping starts with an object of an earlier frame
\* (id "1-7") followed by two detections
C21_Witness ==
  /\ DistancingReturned
  /\ Len(f_objs) = 3
  /\ f_tracked[1] = StaleObject
  /\ f_objs[1].id = Id("1", <<0>>)
  /\ f_objs[3].id = Id("1", <<2>>)

\* the stages run so far are the first ones of the fixed order
InStageOrder ==
  /\ Len(f_trace) <= Len(StageOrder)
  /\ \A k \in 1..Len(f_trace) : f_trace[k] = StageOrder[k]

\* C24: within one iteration on a valid frame the stages run in the fixed
\* order inference, oversized-box rejection, NMS, tracker update, distance
\* matrix, write to the annotated sink, write to the bird's-eye sink, logger
\* update; an iteration that runs to its end has written once to each sink and
\* then updated the logger once with that frame's (objects, distances); the
\* next frame's stages start only after it
C24_StagesInFixedOrder ==
  /\ InStageOrder
  /\ f_nlog <= f_nbird /\ f_nbird <= f_nout /\ f_nout <= f_nlog + 1
  /\ (f_pc = "inference") =>
        /\ f_nout = frame_count /\ f_nbird = frame_count /\ f_nlog = frame_count
        /\ (frame_count > 0) =>
              /\ f_trace = StageOrder
              /\ f_logged = <<[objects |-> f_objs, distancings |-> f_dist]>>
              /\ f_objs = Reindexed(f_tracked)
  /\ (f_pc \notin {"off", "inference", "raised"}) =>
        /\ f_nlog = IF f_pc = "logger_update" THEN frame_count - 1 ELSE frame_count
        /\ f_logged = <<>>

\* the second valid frame has gone through all its stages with two objects
C24_Witness ==
  /\ f_pc = "inference"
  /\ frame_count = 2
  /\ f_trace = StageOrder
  /\ Len(f_logged) = 1
  /\ Len(f_logged[1].objects) >= 2

(***************************************************************************)
(* Properties of _setup_queues (SpecSetup, FairSetup)                      *)
(***************************************************************************)
\* connect() has succeeded
Connected == setup_pc \in {"get_queues", "done"}

\* C22: every refused connection attempt is followed by another attempt; once
\* the endpoint accepts, _setup_queues completes; the queues are obtained, and
\* a command is put, only after a successful connect
C22_RetryUntilConnected ==
  /\ [](setup_pc = "sleep" => <>(setup_pc = "connect"))
  /\ (endpoint = "up") ~> (setup_pc = "done")
  /\ [](queues # {} => Connected)
  /\ [](\A r \in Reqs : (pc[r] # "idle" \/ Len(sent[r]) > 0) => setup_pc = "done")

\* a control plane that was refused, connected later and has put a command
C22_Witness ==
  /\ was_refused
  /\ setup_pc = "done"
  /\ queues = {"cmd", "result"}
  /\ \E r \in Reqs : Len(sent[r]) > 0

(***************************************************************************)
(* Further properties of non_max_suppression_fast (SpecPost)               *)
(***************************************************************************)
NMSDone == pp_pc \in {"nms", "nms_again"}

\* the overlap of b against a exceeds the threshold (tenths):
\* clipped intersection (w + 1) * (h + 1) over b's area (h + 1) * (w + 1)
OverlapExceeds(b, a) == 10 * Intersection(a, b) > pp_thr * Area(b)

\* C23 as stated: for any two kept detections A and B with cy + h/2 of A not
\* smaller than that of B, the overlap of B against A does not exceed
\* overlap_threshold
C23_NoKeptOverlapsLowerKept ==
  NMSDone =>
    \A a, b \in 1..Len(pp_nms) :
      (a # b /\ SortKey(pp_nms[a]) >= SortKey(pp_nms[b]))
        => ~OverlapExceeds(pp_nms[b], pp_nms[a])

\* C23 amended: for any two kept detections A and B with cy + h/2 of A
\* strictly larger than that of B, the overlap of B against A does not exceed
\* overlap_threshold
C23_NoKeptOverlapsStrictlyLowerKept ==
  NMSDone =>
    \A a, b \in 1..Len(pp_nms) :
      SortKey(pp_nms[a]) > SortKey(pp_nms[b])
        => ~OverlapExceeds(pp_nms[b], pp_nms[a])

\* an output with a lower and a higher kept detection, out of an input from
\* which a detection was dropped
C23_Witness ==
  /\ NMSDone
  /\ Len(pp_nms) < Len(pp_in)
  /\ \E a, b \in 1..Len(pp_nms) : SortKey(pp_nms[a]) > SortKey(pp_nms[b])

\* the boxes of a and b have no point in common
GeomDisjoint(a, b) ==
  \/ a.bbox[3] < b.bbox[1]
  \/ b.bbox[3] < a.bbox[1]
  \/ a.bbox[4] < b.bbox[2]
  \/ b.bbox[4] < a.bbox[2]

\* C25: a detection whose box has an empty geometric intersection with the
\* box of every kept detection is never dropped by non_max_suppression_fast
C25_DisjointNeverDropped ==
  (pp_pc = "nms") =>
    \A k \in 1..Len(pp_in) :
      (\A a \in 1..Len(pp_nms) : GeomDisjoint(pp_in[k], pp_nms[a]))
        => InSeq(pp_in[k], pp_nms)

\* sub can be obtained from sq by deleting elements
RECURSIVE IsSubSeqOf(_, _)
IsSubSeqOf(sub, sq) ==
  IF Len(sub) = 0 THEN TRUE
  ELSE IF Len(sq) = 0 THEN FALSE
  ELSE IF Head(sub) = Head(sq) THEN IsSubSeqOf(Tail(sub), Tail(sq))
  ELSE IsSubSeqOf(sub, Tail(sq))

\* C26: the output of non_max_suppression_fast is a sub-list of its input in
\* the input's relative order, and it is non-empty whenever the input is
C26_OutputIsSubListOfInput ==
  (pp_pc = "nms") =>
    /\ Len(pp_nms) <= Len(pp_in)
    /\ IsSubSeqOf(pp_nms, pp_in)
    /\ (Len(pp_in) > 0) => (Len(pp_nms) > 0)

\* an output of two detections, the one picked first standing last, out of
\* an input of three
C26_Witness ==
  /\ pp_pc = "nms"
  /\ Len(pp_in) = 3
  /\ Len(pp_nms) = 2
  /\ SortKey(pp_nms[1]) < SortKey(pp_nms[2])

====
